---- MODULE Spec2Model ----
(***************************************************************************)
(* Model of get_stock_news (utilities.py): the default credential captured *)
(* when the function is defined, the single HTTP request to Finnhub, the   *)
(* normalisation of the raw items, the de-duplication by content and the   *)
(* truncation to target_count.                                             *)
(***************************************************************************)
EXTENDS Integers, Sequences, FiniteSets, TLC

VARIABLES
    pc,            \* "unloaded" | "idle" | "waiting" | "returned"
    env,           \* os.environ["FINNHUB_API_KEY"]: None or <<string>>
    defaultKey,    \* the default of parameter finnhub_key (get_stock_news.__defaults__)
    symbolArg,     \* argument stock_symbol as the caller passed it
    keyOmitted,    \* TRUE when the caller passed no finnhub_key
    stock_symbol,  \* local stock_symbol (after line 92)
    finnhub_key,   \* parameter finnhub_key as bound for the call
    target_count,  \* parameter target_count
    requests,      \* the calls of requests.get made by the current call, in order
    response,      \* what requests.get / the provider answered
    all_news,      \* local all_news when the call returned
    unique_news,   \* local unique_news when the call returned
    result         \* what the call returned (or the exception it raised)

vars == << pc, env, defaultKey, symbolArg, keyOmitted, stock_symbol, finnhub_key,
           target_count, requests, response, all_news, unique_news, result >>

----------------------------------------------------------------------------
(* Bounds of the model *)

\* longest provider response (number of raw items) of SpecNews
MaxLen == 4
\* longest provider response (number of raw items) of Spec
MaxBody == 3
\* largest target_count a caller passes
MaxCount == 3

----------------------------------------------------------------------------
(* Values *)

\* Python None and str, as an option: None is <<>>, the string s is <<s>>
None == << >>
Str(s) == << s >>

\* the test "finnhub_key is not None" in place of the truth value
TruthyNotNone(key) == key # None

\* bool(finnhub_key) at line 97: None and "" are falsy
Truthy(key) == key # None /\ key[1] # ""

\* str.upper, character by character
UpperChar(c) ==
    CASE c = "a" -> "A" [] c = "l" -> "L" [] c = "p" -> "P"
      [] c = "s" -> "S" [] c = "t" -> "T" [] OTHER -> c

Upper(s) == [i \in 1..Len(s) |-> UpperChar(s[i])]

\* a slice that forgets the limit
SliceAll(s, k) == s

\* s[:k] for a Python sequence s and an int k (negative k counts from the end)
Slice(s, k) ==
    IF k >= 0
      THEN SubSeq(s, 1, IF k < Len(s) THEN k ELSE Len(s))
      ELSE SubSeq(s, 1, IF Len(s) + k > 0 THEN Len(s) + k ELSE 0)

\* dict.get(key) without the default, formatted by the f-string
GetNoDefault(d, key, default) == IF key \in DOMAIN d THEN d[key] ELSE "None"

\* dict.get(key, default)
Get(d, key, default) == IF key \in DOMAIN d THEN d[key] ELSE default

----------------------------------------------------------------------------
(* The clock and the date window (lines 99-100) *)

\* days of each month of a year that is not a leap year
DaysInMonth == << 31, 28, 31, 30, 31, 30, 31, 31, 30, 31, 30, 31 >>

\* datetime.now(): a year and a day of that year (1 is January 1st). The
\* readings the first call of datetime.now() may return (4 March 2025)
ClockReadings == { [year |-> 2025, yday |-> 63] }

\* the clock one day later (both readings stay inside the year)
NextDay(t) == [t EXCEPT !.yday = @ + 1]

\* datetime - timedelta(days=n), inside the year
MinusDays(t, n) == [t EXCEPT !.yday = @ - n]

\* strftime('%Y-%m-%d'): the calendar date <<Y, m, d>> of a reading
RECURSIVE MonthDay(_, _, _)
MonthDay(y, n, m) ==
    IF n <= DaysInMonth[m] THEN << y, m, n >> ELSE MonthDay(y, n - DaysInMonth[m], m + 1)

Strftime(t) == MonthDay(t.year, t.yday, 1)

\* timedelta(days=7)
LOOKBACK_DAYS == 7

----------------------------------------------------------------------------
(* The provider's answers *)

\* the raw items of a response body: JSON objects with or without the fields
\* headline, summary, source, and an element that is no object at all
RawItems ==
    { [type |-> "dict", fields |-> [headline |-> "X", summary |-> "y"]],
      [type |-> "dict", fields |-> [headline |-> "X", summary |-> "y", source |-> "Reuters"]],
      [type |-> "dict", fields |-> [headline |-> "X"]],
      [type |-> "dict", fields |-> [headline |-> "X", summary |-> "", source |-> "CNBC"]],
      [type |-> "dict", fields |-> [summary |-> "y", source |-> "Reuters"]],
      [type |-> "dict", fields |-> << >>],
      [type |-> "str"] }

Bodies(maxLen) == UNION { [1..n -> RawItems] : n \in 0..maxLen }

\* what requests.get, raise_for_status and json() can do (lines 109-111)
Responses(maxLen) ==
    { [kind |-> "ConnectionError"], [kind |-> "Timeout"], [kind |-> "HTTPError"],
      [kind |-> "JSONDecodeError"], [kind |-> "json", json |-> [type |-> "object"]] }
    \cup { [kind |-> "json", json |-> [type |-> "list", items |-> b]] : b \in Bodies(maxLen) }

\* str(e) of the exception each failure raises
ExcMessage(type) ==
    CASE type = "ConnectionError" -> "connection failed"
      [] type = "Timeout" -> "read timed out"
      [] type = "HTTPError" -> "403 Client Error"
      [] type = "JSONDecodeError" -> "Expecting value"
      [] type = "TypeError" -> "unhashable type: 'slice'"
      [] type = "AttributeError" -> "'str' object has no attribute 'get'"

Exc(type) == [type |-> type, msg |-> ExcMessage(type)]

----------------------------------------------------------------------------
(* The body of get_stock_news *)

URL == "https://finnhub.io/api/v1/company-news"

\* timeout=10 at line 109
TIMEOUT == 10

\* the default of target_count
DEFAULT_TARGET_COUNT == 100

\* lines 98-109: the request, built from two readings of the clock
BuildRequest(symbol, key, now1, now2) ==
    [ url     |-> URL,
      params  |-> [ symbol |-> symbol,
                    from   |-> Strftime(MinusDays(now2, LOOKBACK_DAYS)),
                    to     |-> Strftime(now1) ],
      headers |-> [ token |-> key[1] ],
      timeout |-> TIMEOUT ]

\* lines 113-117: one raw item to one news item
Normalize(item) ==
    [ source  |-> Get(item.fields, "source", "Finnhub"),
      content |-> Get(item.fields, "headline", "") \o ". " \o Get(item.fields, "summary", "") ]

\* lines 112-117: the loop over data[:target_count]; an element without .get
\* raises AttributeError, with all_news as built so far
RECURSIVE NormalizeLoop(_, _, _)
NormalizeLoop(data, i, news) ==
    IF i > Len(data) THEN [raised |-> FALSE, news |-> news]
    ELSE IF data[i].type # "dict"
      THEN [raised |-> TRUE, exc |-> Exc("AttributeError"), news |-> news]
      ELSE NormalizeLoop(data, i + 1, Append(news, Normalize(data[i])))

\* the try block iterating over data instead of data[:target_count]
TryBlockNoSlice(resp, k) ==
    IF resp.kind # "json" THEN [raised |-> TRUE, exc |-> Exc(resp.kind), news |-> << >>]
    ELSE IF resp.json.type # "list"
      THEN [raised |-> TRUE, exc |-> Exc("TypeError"), news |-> << >>]
      ELSE NormalizeLoop(resp.json.items, 1, << >>)

\* lines 108-117: the try block
TryBlock(resp, k) ==
    IF resp.kind # "json" THEN [raised |-> TRUE, exc |-> Exc(resp.kind), news |-> << >>]
    ELSE IF resp.json.type # "list"
      THEN [raised |-> TRUE, exc |-> Exc("TypeError"), news |-> << >>]
      ELSE NormalizeLoop(Slice(resp.json.items, k), 1, << >>)

\* except requests.RequestException in place of except Exception
CaughtRequestsOnly(exc) ==
    exc.type \in { "ConnectionError", "Timeout", "HTTPError", "JSONDecodeError" }

\* line 118: except Exception catches every exception the try block raises
Caught(exc) == TRUE

\* line 119
FetchError(exc) == [error |-> "Error fetching news from Finnhub: " \o exc.msg]

\* line 122
MissingKeyError == [error |-> "Finnhub API key is required to fetch stock news."]

\* line 125
NoNewsError ==
    [error |-> "No news found for the given stock symbol. Check if the symbol is correct."]

\* the test "all_news is None" in place of "not all_news"
IsEmptyNever(news) == FALSE

\* line 124: not all_news
IsEmpty(news) == news = << >>

\* the membership test left out
NotSeenAlways(item, seen) == TRUE

\* line 130: item['content'] not in seen
NotSeen(item, seen) == item.content \notin seen

\* lines 127-132: the de-duplication loop
RECURSIVE DedupLoop(_, _, _, _)
DedupLoop(news, i, seen, unique) ==
    IF i > Len(news) THEN unique
    ELSE IF NotSeen(news[i], seen)
      THEN DedupLoop(news, i + 1, seen \cup {news[i].content}, Append(unique, news[i]))
      ELSE DedupLoop(news, i + 1, seen, unique)

\* de-duplication that keeps the last occurrence of each content
Reverse(seq) == [i \in 1..Len(seq) |-> seq[Len(seq) + 1 - i]]

DedupKeepLast(news) == Reverse(DedupLoop(Reverse(news), 1, {}, << >>))

Dedup(news) == DedupLoop(news, 1, {}, << >>)

\* line 134: unique_news[:target_count]
Truncate(unique, k) == Slice(unique, k)

----------------------------------------------------------------------------
(* Inputs *)

\* values of the environment variable FINNHUB_API_KEY (None: not set)
EnvValues == { None, Str("k1") }

\* values a caller passes as finnhub_key
KeyArgs == { None, Str(""), Str("k1") }

\* ticker symbols a caller passes, as sequences of characters
Symbols == { << "a", "a", "p", "l" >>, << "T", "S", "L", "A" >> }

\* values of target_count: the ones a caller passes and the default
TargetCounts == (-1 .. MaxCount) \cup { DEFAULT_TARGET_COUNT }

\* the value a call has not produced yet
Pending == [pending |-> TRUE]

NoResponse == [kind |-> "none"]

----------------------------------------------------------------------------
(* The state machine *)

Init ==
    /\ pc = "unloaded"
    /\ env \in EnvValues
    /\ defaultKey = None
    /\ symbolArg = << >>
    /\ keyOmitted = FALSE
    /\ stock_symbol = << >>
    /\ finnhub_key = None
    /\ target_count = 0
    /\ requests = << >>
    /\ response = NoResponse
    /\ all_news = << >>
    /\ unique_news = << >>
    /\ result = Pending

\* lines 77-80: the def statement evaluates os.getenv("FINNHUB_API_KEY") once
\* and stores it as the default of finnhub_key
Define ==
    /\ pc = "unloaded"
    /\ defaultKey' = env
    /\ pc' = "idle"
    /\ UNCHANGED << env, symbolArg, keyOmitted, stock_symbol, finnhub_key, target_count,
                    requests, response, all_news, unique_news, result >>

\* os.environ["FINNHUB_API_KEY"] is set, changed or deleted after the definition
SetEnv(v) ==
    /\ pc \in { "idle", "waiting" }
    /\ v # env
    /\ env' = v
    /\ UNCHANGED << pc, defaultKey, symbolArg, keyOmitted, stock_symbol, finnhub_key,
                    target_count, requests, response, all_news, unique_news, result >>

\* the environment read when the call is made
BoundKeyAtCall(omitted, keyArg) == IF omitted THEN env ELSE keyArg

\* the binding of parameter finnhub_key: the argument, or the stored default
BoundKey(omitted, keyArg) == IF omitted THEN defaultKey ELSE keyArg

\* lines 92-109 and 121-122: a call, up to requests.get (which blocks) or to the
\* return of the missing-key error. now1 and now2 are the two readings of
\* datetime.now() at lines 99 and 100.
Call(symbol, omitted, keyArg, k, now1, now2) ==
    /\ pc = "idle"
    /\ symbolArg' = symbol
    /\ keyOmitted' = omitted
    /\ finnhub_key' = BoundKey(omitted, keyArg)
    /\ target_count' = k
    /\ stock_symbol' = Upper(symbol)
    /\ response' = NoResponse
    /\ all_news' = << >>
    /\ unique_news' = << >>
    /\ IF Truthy(finnhub_key')
         THEN /\ requests' = << BuildRequest(stock_symbol', finnhub_key', now1, now2) >>
              /\ result' = Pending
              /\ pc' = "waiting"
         ELSE /\ requests' = << >>
              /\ result' = MissingKeyError
              /\ pc' = "returned"
    /\ UNCHANGED << env, defaultKey >>

\* lines 109-134: requests.get answers (or raises) with one of `answers` and
\* the call runs to its end
Receive(answers) ==
    /\ pc = "waiting"
    /\ \E resp \in answers :
          /\ response' = resp
          /\ LET out == TryBlock(resp, target_count)
             IN  /\ all_news' = out.news
                 /\ IF out.raised
                      THEN /\ unique_news' = << >>
                           /\ result' = IF Caught(out.exc) THEN FetchError(out.exc)
                                                           ELSE [raised |-> out.exc]
                      ELSE IF IsEmpty(out.news)
                        THEN /\ unique_news' = << >>
                             /\ result' = NoNewsError
                        ELSE /\ unique_news' = Dedup(out.news)
                             /\ result' = [items |-> Truncate(unique_news', target_count)]
    /\ pc' = "returned"
    /\ UNCHANGED << env, defaultKey, symbolArg, keyOmitted, stock_symbol, finnhub_key,
                    target_count, requests >>

\* the caller takes the result; the locals of the call are gone
Return ==
    /\ pc = "returned"
    /\ pc' = "idle"
    /\ symbolArg' = << >>
    /\ keyOmitted' = FALSE
    /\ stock_symbol' = << >>
    /\ finnhub_key' = None
    /\ target_count' = 0
    /\ requests' = << >>
    /\ response' = NoResponse
    /\ all_news' = << >>
    /\ unique_news' = << >>
    /\ result' = Pending
    /\ UNCHANGED << env, defaultKey >>

Next ==
    \/ Define
    \/ \E v \in EnvValues : SetEnv(v)
    \/ /\ pc = "idle"
       /\ \E symbol \in Symbols, omitted \in BOOLEAN, keyArg \in KeyArgs, k \in TargetCounts,
             now1 \in ClockReadings :
             \E now2 \in { now1, NextDay(now1) } :
                /\ omitted => keyArg = None
                /\ Call(symbol, omitted, keyArg, k, now1, now2)
    \/ Receive(Responses(MaxBody))
    \/ Return

Spec == Init /\ [][Next]_vars

\* The processing of the provider's answer, with longer answers: the credential
\* is set in the environment before the definition and stays, and every call
\* omits finnhub_key and reads the clock twice on the same day.
InitNews == Init /\ env = Str("k1")

NextNews ==
    \/ Define
    \/ /\ pc = "idle"
       /\ \E symbol \in Symbols, k \in TargetCounts, now \in ClockReadings :
             Call(symbol, TRUE, None, k, now, now)
    \/ Receive(Responses(MaxLen))
    \/ Return

SpecNews == InitNews /\ [][NextNews]_vars

----------------------------------------------------------------------------
(* Vocabulary of the properties *)

InCall == pc \in { "waiting", "returned" }
Returned == pc = "returned"
IsError(r) == DOMAIN r = { "error" }
IsSuccess(r) == DOMAIN r = { "items" }
Propagated(r) == "raised" \in DOMAIN r

\* the provider answered with a JSON array
IsList(resp) == resp.kind = "json" /\ resp.json.type = "list"

\* the raw items of the answer
Raw == response.json.items

\* the number of raw items taken when target_count is positive
Taken == IF target_count < Len(Raw) THEN target_count ELSE Len(Raw)

Field(item, name) == IF name \in DOMAIN item.fields THEN << item.fields[name] >> ELSE << >>

\* the content and the source the specification gives a raw object
ContentOf(item) ==
    (IF Field(item, "headline") = << >> THEN "" ELSE item.fields.headline)
    \o ". " \o
    (IF Field(item, "summary") = << >> THEN "" ELSE item.fields.summary)

SourceOf(item) == IF Field(item, "source") = << >> THEN "Finnhub" ELSE item.fields.source

NewsOf(item) == [source |-> SourceOf(item), content |-> ContentOf(item)]

SameHeadlineAndSummary(a, b) ==
    /\ a.type = "dict" /\ b.type = "dict"
    /\ Field(a, "headline") = Field(b, "headline")
    /\ Field(a, "summary") = Field(b, "summary")

CountContent(items, c) == Cardinality({ i \in 1..Len(items) : items[i].content = c })

NoRepeatedContent(items) ==
    \A i, j \in 1..Len(items) : items[i].content = items[j].content => i = j

\* the first occurrences, by content, of a sequence of news items, in order
RECURSIVE FirstOccurrences(_, _)
FirstOccurrences(seq, i) ==
    IF i > Len(seq) THEN << >>
    ELSE (IF \A j \in 1..(i - 1) : seq[j].content # seq[i].content THEN << seq[i] >> ELSE << >>)
         \o FirstOccurrences(seq, i + 1)

AAPL == << "A", "A", "P", "L" >>
XY == [type |-> "dict", fields |-> [headline |-> "X", summary |-> "y"]]
XYReuters == [type |-> "dict", fields |-> [headline |-> "X", summary |-> "y", source |-> "Reuters"]]
XOnly == [type |-> "dict", fields |-> [headline |-> "X"]]
XEmptyCNBC == [type |-> "dict", fields |-> [headline |-> "X", summary |-> "", source |-> "CNBC"]]
YOnlyReuters == [type |-> "dict", fields |-> [summary |-> "y", source |-> "Reuters"]]
NoFields == [type |-> "dict", fields |-> << >>]
NotAnObject == [type |-> "str"]

----------------------------------------------------------------------------
(* C1 *)

\* C1: a call whose credential is None or "" returns the missing-key error and
\* issues no HTTP request, whatever the symbol and the target_count.
C1_MissingKeyNoRequest ==
    (InCall /\ finnhub_key \in { None, Str("") }) =>
        /\ Returned
        /\ result = MissingKeyError
        /\ requests = << >>

C1_Witness ==
    /\ Returned /\ ~keyOmitted /\ finnhub_key = Str("")
    /\ result = MissingKeyError /\ requests = << >>

----------------------------------------------------------------------------
(* C2 *)

\* the exception the try block meets first, as a sequence of at most one type
FailureCause ==
    IF response.kind \in { "ConnectionError", "Timeout", "HTTPError", "JSONDecodeError" }
      THEN << response.kind >>
    ELSE IF ~IsList(response) THEN << "TypeError" >>
    ELSE IF \E i \in 1..Len(Slice(Raw, target_count)) : Raw[i].type # "dict"
      THEN << "AttributeError" >>
    ELSE << >>

\* C2: with a credential, when the request fails (requests.get, the status
\* check or the parsing raises, the body is no array, or an element that the
\* loop reaches is no object), the call returns {error: ...} carrying the
\* message of that exception; no exception reaches the caller and no list is
\* returned.
C2_FailureIsErrorValue ==
    (Returned /\ response # NoResponse /\ FailureCause # << >>) =>
        /\ result = [error |-> "Error fetching news from Finnhub: " \o ExcMessage(FailureCause[1])]
        /\ ~IsSuccess(result)
        /\ ~Propagated(result)

C2_Witness ==
    /\ Returned /\ IsList(response) /\ target_count = 2
    /\ Raw = << XY, NotAnObject >>
    /\ all_news # << >>
    /\ IsError(result)

----------------------------------------------------------------------------
(* C3 *)

\* C3: with a credential and a successful answer of zero news items, the call
\* returns the "No news found" error, not an empty list.
C3_EmptyAnswerIsError ==
    (Returned /\ IsList(response) /\ Raw = << >>) => result = NoNewsError

C3_Witness ==
    /\ Returned /\ IsList(response) /\ Raw = << >> /\ target_count = 2
    /\ result = NoNewsError

----------------------------------------------------------------------------
(* C4 *)

\* C4 as stated, for the positive target_count the specification asks for: a
\* successful result repeats no content, and whenever two raw items of the
\* answer have the same headline and summary the result holds exactly one
\* entry with that content.
C4_ExactlyOnePerRepeatedContent ==
    (Returned /\ IsSuccess(result) /\ target_count > 0) =>
        /\ NoRepeatedContent(result.items)
        /\ \A i, j \in 1..Len(Raw) :
              (i < j /\ SameHeadlineAndSummary(Raw[i], Raw[j]))
                  => CountContent(result.items, ContentOf(Raw[i])) = 1

\* C4 amended: a successful result repeats no content; raw items with the same
\* headline and summary give at most one entry with that content, and exactly
\* one when target_count is positive and one of them is among the first
\* target_count raw items.
C4_AtMostOnePerRepeatedContent ==
    (Returned /\ IsSuccess(result)) =>
        /\ NoRepeatedContent(result.items)
        /\ \A i, j \in 1..Len(Raw) :
              (i < j /\ SameHeadlineAndSummary(Raw[i], Raw[j]))
                  => /\ CountContent(result.items, ContentOf(Raw[i])) <= 1
                     /\ (target_count > 0 /\ i <= target_count)
                           => CountContent(result.items, ContentOf(Raw[i])) = 1

C4_Witness ==
    /\ Returned /\ symbolArg = << "a", "a", "p", "l" >> /\ stock_symbol = AAPL
    /\ target_count = DEFAULT_TARGET_COUNT
    /\ IsList(response) /\ Raw = << XY, XY >>
    /\ result = [items |-> << [source |-> "Finnhub", content |-> "X. y"] >>]

----------------------------------------------------------------------------
(* C5 *)

\* C5: for a positive target_count, a successful result is exactly the first
\* occurrences, by content, of the normalised first target_count raw items, in
\* the provider's order; the entry kept for a repeated content is the first
\* one met.
C5_FirstSeenOrder ==
    (Returned /\ IsSuccess(result) /\ target_count > 0) =>
        result.items = FirstOccurrences([i \in 1..Taken |-> NewsOf(Raw[i])], 1)

C5_Witness ==
    /\ Returned /\ target_count = DEFAULT_TARGET_COUNT /\ IsList(response)
    /\ Raw = << XYReuters, XOnly, XY, YOnlyReuters >>
    /\ result = [items |-> << [source |-> "Reuters", content |-> "X. y"],
                              [source |-> "Finnhub", content |-> "X. "],
                              [source |-> "Reuters", content |-> ". y"] >>]

----------------------------------------------------------------------------
(* C6 *)

AllObjects(raw) == \A i \in 1..Len(raw) : raw[i].type = "dict"

DistinctContent(raw) ==
    \A i, j \in 1..Len(raw) : ContentOf(raw[i]) = ContentOf(raw[j]) => i = j

\* C6: for a positive target_count k a successful result has at most k
\* entries, and an answer of n >= k objects with pairwise distinct content
\* gives exactly the first k of them.
C6_Truncation ==
    (Returned /\ target_count > 0 /\ IsList(response)) =>
        /\ IsSuccess(result) => Len(result.items) <= target_count
        /\ (AllObjects(Raw) /\ DistinctContent(Raw) /\ Len(Raw) >= target_count)
              => result = [items |-> [i \in 1..target_count |-> NewsOf(Raw[i])]]

C6_Witness ==
    /\ Returned /\ target_count = 2 /\ IsList(response)
    /\ Raw = << XY, XOnly, YOnlyReuters, NoFields >>
    /\ result = [items |-> << [source |-> "Finnhub", content |-> "X. y"],
                              [source |-> "Finnhub", content |-> "X. "] >>]

----------------------------------------------------------------------------
(* C7 *)

\* C7: a raw object without headline, summary or source is normalised with ""
\* for the missing headline or summary and "Finnhub" for the missing source,
\* and the missing fields cause no error: an answer whose taken items are all
\* objects, and at least one, gives a list.
C7_MissingFieldsDefault ==
    (Returned /\ IsList(response)) =>
        LET taken == Slice(Raw, target_count)
        IN  (taken # << >> /\ AllObjects(taken)) =>
                /\ IsSuccess(result)
                /\ all_news = [i \in 1..Len(taken) |-> NewsOf(taken[i])]

C7_Witness ==
    /\ Returned /\ IsList(response) /\ target_count = 3
    /\ Raw = << NoFields, XOnly, YOnlyReuters >>
    /\ result = [items |-> << [source |-> "Finnhub", content |-> ". "],
                              [source |-> "Finnhub", content |-> "X. "],
                              [source |-> "Reuters", content |-> ". y"] >>]

----------------------------------------------------------------------------
(* C10 *)

\* C10: for a positive target_count k the call ends in an error value or in a
\* list of 1 to k entries, never both and never an empty list; the
\* de-duplication leaves at least one entry of a non-empty all_news, and the
\* final truncation removes nothing.
C10_OutcomeShape ==
    (Returned /\ target_count > 0) =>
        /\ IsError(result) # IsSuccess(result)
        /\ ~Propagated(result)
        /\ IsSuccess(result) =>
              /\ Len(result.items) >= 1
              /\ Len(result.items) <= target_count
              /\ all_news # << >>
              /\ unique_news # << >>
              /\ Len(unique_news) <= target_count
              /\ result.items = unique_news

C10_Witness ==
    /\ Returned /\ target_count = 3 /\ IsList(response)
    /\ Raw = << XOnly, XEmptyCNBC, XOnly, XY >>
    /\ Len(all_news) = 3
    /\ unique_news = << [source |-> "Finnhub", content |-> "X. "] >>
    /\ result = [items |-> unique_news]

----------------------------------------------------------------------------
(* C8 *)

\* the symbol a caller passed, in upper case
UpperCased(symbol) == IF symbol = << "a", "a", "p", "l" >> THEN AAPL ELSE symbol

\* the day of the year of a calendar date <<Y, m, d>>
RECURSIVE DaysBefore(_)
DaysBefore(m) == IF m = 1 THEN 0 ELSE DaysInMonth[m - 1] + DaysBefore(m - 1)

Ordinal(date) == DaysBefore(date[2]) + date[3]

\* the number of days from the request's "from" date to its "to" date
WindowDays(req) == Ordinal(req.params.to) - Ordinal(req.params.from)

\* the part of C8 about the number of requests: a call with a non-empty
\* credential has issued exactly one request, to the company-news endpoint
\* with the upper-cased symbol, at every point from requests.get to the return.
OneRequestPerCall ==
    (InCall /\ finnhub_key \notin { None, Str("") }) =>
        /\ Len(requests) = 1
        /\ requests[1].url = URL
        /\ requests[1].params.symbol = UpperCased(symbolArg)
        /\ requests[1].headers.token = finnhub_key[1]

\* C8: a call with a non-empty credential issues exactly one request, to the
\* company-news endpoint, with the upper-cased symbol and a window of 7 days
\* between "from" and "to", and issues no other request before it returns.
C8_OneRequestSevenDayWindow ==
    (InCall /\ finnhub_key \notin { None, Str("") }) =>
        /\ Len(requests) = 1
        /\ requests[1].url = URL
        /\ requests[1].params.symbol = UpperCased(symbolArg)
        /\ WindowDays(requests[1]) = LOOKBACK_DAYS

----------------------------------------------------------------------------
(* C9 *)

\* an omitted finnhub_key is bound to the stored default; with the default
\* None the call returns the missing-key error and issues no request
OmittedKeyUsesDefault ==
    (InCall /\ keyOmitted) =>
        /\ finnhub_key = defaultKey
        /\ defaultKey = None =>
              (Returned /\ result = MissingKeyError /\ requests = << >>)

\* C9: the default credential is the value the environment variable has when
\* the function is defined; setting or changing the variable afterwards never
\* changes it, and a call that omits finnhub_key uses it (so with the variable
\* unset at the definition every such call returns the missing-key error and
\* issues no request, even after the variable is set).
C9_DefaultCapturedAtDefinition ==
    /\ [][pc = "unloaded" => defaultKey' = env]_vars
    /\ [][pc # "unloaded" => defaultKey' = defaultKey]_vars
    /\ []OmittedKeyUsesDefault

C9_Witness ==
    /\ Returned /\ keyOmitted
    /\ defaultKey = None /\ env = Str("k1")
    /\ result = MissingKeyError /\ requests = << >>

====
